---- MODULE Spec2Model ----
(***************************************************************************)
(* Model of smartcat's provider dispatch layer, src/third_party/mod.rs:    *)
(* make_api_request, read_response and validate_prompt_size.               *)
(*                                                                         *)
(* One behaviour is one invocation of make_api_request on one (ApiConfig,  *)
(* Prompt) pair chosen in Init.  Integers wider than TLC's are kept as     *)
(* little-endian tuples of 16-bit limbs: a usize (String::len) has four    *)
(* limbs, a u32 has two.  An Option<T> is <<>> (None) or <<x>> (Some(x)).  *)
(***************************************************************************)
EXTENDS Integers, Sequences, FiniteSets, TLC

\* ------------------------------------------------------------------ bounds
MaxMsgs == 2

\* ------------------------------------------------------- Option<T> helpers
None == <<>>
Some(x) == <<x>>
IsNone(o) == o = <<>>
IsSome(o) == o # <<>>

\* ------------------------------------------------------- limb arithmetic
LimbBase == 2 ^ 16

\* a u32 value lo + hi * 2^16
U32(lo, hi) == <<lo, hi>>
\* a usize value, limbs l1 (least significant) .. l4
Usize(l1, l2, l3, l4) == <<l1, l2, l3, l4>>

ZeroU32 == U32(0, 0)
ZeroUsize == Usize(0, 0, 0, 0)

\* comparison a > b of two limb tuples of the same length n, from the top limb
RECURSIVE GtLimbs(_, _, _)
GtLimbs(a, b, n) ==
    IF n = 0 THEN FALSE
    ELSE IF a[n] # b[n] THEN a[n] > b[n]
    ELSE GtLimbs(a, b, n - 1)

\* u32 > u32, the comparison of line 99
GtU32(a, b) == GtLimbs(a, b, 2)

\* usize > usize
GtUsize(a, b) == GtLimbs(a, b, 4)

\* `x as u32` on a usize: the low 32 bits are kept, the rest is dropped
AsU32(len) == U32(len[1], len[2])

\* u32 as a usize (lossless widening)
Widen(x) == Usize(x[1], x[2], 0, 0)

\* u32 + u32: the wrapped sum and whether the addition overflowed 32 bits
AddU32(a, b) ==
    LET lo == a[1] + b[1]
        hi == a[2] + b[2] + (lo \div LimbBase)
    IN  [value |-> U32(lo % LimbBase, hi % LimbBase),
         overflowed |-> hi \div LimbBase > 0]

\* usize + usize without wrap-around (the inputs of the model stay below 2^64)
AddUsize(a, b) ==
    LET s1 == a[1] + b[1]
        s2 == a[2] + b[2] + (s1 \div LimbBase)
        s3 == a[3] + b[3] + (s2 \div LimbBase)
        s4 == a[4] + b[4] + (s3 \div LimbBase)
    IN  Usize(s1 % LimbBase, s2 % LimbBase, s3 % LimbBase, s4)

\* ------------------------------------------------------------- strings
\* a String is a sequence of one-character strings
WhiteSpace == {" ", "\n", "\t", "\r"}

RECURSIVE TrimStart(_)
TrimStart(s) ==
    IF s = <<>> THEN <<>>
    ELSE IF Head(s) \in WhiteSpace THEN TrimStart(Tail(s))
    ELSE s

RECURSIVE TrimEnd(_)
TrimEnd(s) ==
    IF s = <<>> THEN <<>>
    ELSE IF s[Len(s)] \in WhiteSpace THEN TrimEnd(SubSeq(s, 1, Len(s) - 1))
    ELSE s

\* str::trim of line 107
Trim(s) == TrimEnd(TrimStart(s))

\* the affirmative token of line 107
AffirmativeToken == <<"Y">>

\* --------------------------------------------------------- input domains
\* String::len() of the message contents the model draws from:
\* 5, 11, 2^31 and 2^32 + 5 bytes
Len5 == Usize(5, 0, 0, 0)
Len11 == Usize(11, 0, 0, 0)
Len2G == Usize(0, 2 ^ 15, 0, 0)
Len4GPlus5 == Usize(5, 0, 1, 0)

\* a Message is its role and the byte length of its content
MessageChoices ==
    { [role |-> "system", content |-> Len5],
      [role |-> "user", content |-> Len11],
      [role |-> "user", content |-> Len2G],
      [role |-> "user", content |-> Len4GPlus5] }

RECURSIVE SeqsUpTo(_, _)
SeqsUpTo(S, n) ==
    IF n = 0 THEN {<<>>}
    ELSE LET shorter == SeqsUpTo(S, n - 1)
         IN  shorter \cup {Append(q, x) : q \in shorter, x \in S}

Api == {"Openai", "Mistral", "Groq", "Ollama", "Anthropic", "AnotherApiForTests"}

CharLimitChoices == {None, Some(ZeroU32), Some(U32(10, 0))}

Prompts ==
    [api : Api,
     model : {None, Some("prompt-model")},
     messages : SeqsUpTo(MessageChoices, MaxMsgs),
     stream : {None, Some(TRUE), Some(FALSE)},
     char_limit : CharLimitChoices]

ApiConfigs ==
    [url : {"https://api"},
     api_key : {None, Some("key")},
     default_model : {None, Some("default-model")},
     version : {None, Some("2023-06-01")}]

\* what read_user_input can hand back for one line of the terminal
UserInputs ==
    { <<"Y">>, <<"Y", "\n">>, <<" ", "Y", " ", "\n">>, <<"y", "\n">>,
      <<"n", "\n">>, <<"\n">>, <<>>, <<"Y", "e", "s", "\n">>,
      <<"Y", " ", "Y", "\n">> }

\* what ureq's send_json can come back with
TransportResults ==
    { [kind |-> "Ok", status |-> 200, body |-> Some("json")],
      [kind |-> "Status", status |-> 404, body |-> Some("not found")],
      [kind |-> "Status", status |-> 500, body |-> None],
      [kind |-> "Transport", status |-> 0, body |-> None] }

\* ------------------------------------------------------------------ state
VARIABLES
    api_config,       \* the ApiConfig passed by value
    caller_prompt,    \* the caller's Prompt behind the &Prompt argument
    input_prompt,     \* caller_prompt as it was when make_api_request was called
    interactive,      \* what is_interactive() answers in this process
    overflow_checks,  \* whether the build has overflow-checks on (debug) or off (release)
    pc,               \* position inside make_api_request
    prompt,           \* the local clone of line 28: None before it exists
    request,          \* the header names set on the ureq request: None before line 37
    payload,          \* the body handed to send_json: None before an adapter ran
    response,         \* what send_json came back with: None before the call
    posts,            \* number of HTTP POSTs issued
    lines_read,       \* number of lines read from the terminal
    confirmation,     \* the line read_user_input returned at line 106: None if none
    parsed,           \* whether into_json succeeded: None before it ran
    number_of_chars,  \* the u32 of line 91: None before it is computed
    delivery,         \* "running", "returned", "panicked" or "exited"
    outcome,          \* kind of the result once delivery is not "running"
    message,          \* the Message of an Ok result: None otherwise
    exit_status,      \* the status of std::process::exit: None if it was not called
    error_body,       \* the body text inside a status io::Error: None otherwise
    trace             \* the steps taken so far, in order

vars ==
    << api_config, caller_prompt, input_prompt, interactive, overflow_checks, pc,
       prompt, request, payload, response, posts, lines_read, confirmation,
       parsed, number_of_chars, delivery, outcome, message, exit_status, error_body, trace >>

inputs == << api_config, caller_prompt, input_prompt, interactive, overflow_checks >>

Init ==
    /\ api_config \in ApiConfigs
    /\ caller_prompt \in Prompts
    /\ input_prompt = caller_prompt
    /\ interactive \in BOOLEAN
    /\ overflow_checks \in BOOLEAN
    /\ pc = "validate_prompt_size"
    /\ prompt = None
    /\ request = None
    /\ payload = None
    /\ response = None
    /\ posts = 0
    /\ lines_read = 0
    /\ confirmation = None
    /\ parsed = None
    /\ number_of_chars = None
    /\ delivery = "running"
    /\ outcome = "none"
    /\ message = None
    /\ exit_status = None
    /\ error_body = None
    /\ trace = <<>>

\* ------------------------------------------------- validate_prompt_size
\* Option::unwrap_or_default on the char_limit
UnwrapOrDefault(o) == IF IsNone(o) THEN ZeroU32 ELSE o[1]

\* lines 91-95: map(|m| m.content.len() as u32).sum(), folded left to right
RECURSIVE SumU32(_)
SumU32(msgs) ==
    IF msgs = <<>> THEN [value |-> ZeroU32, overflowed |-> FALSE]
    ELSE LET n == Len(msgs)
             front == SumU32(SubSeq(msgs, 1, n - 1))
             s == AddU32(front.value, AsU32(msgs[n].content))
         IN  [value |-> s.value, overflowed |-> front.overflowed \/ s.overflowed]

\* the condition of line 99
OverLimit(p) ==
    LET char_limit == UnwrapOrDefault(p.char_limit)
    IN  GtU32(char_limit, ZeroU32) /\ GtU32(SumU32(p.messages).value, char_limit)

\* the sum panics where the build checks overflow
SumPanics(p, checks) == checks /\ SumU32(p.messages).overflowed

\* whether lines 100-106 are reached: the guard blocks on one line of input
GuardPrompts(p, is_interactive, checks) ==
    ~SumPanics(p, checks) /\ OverLimit(p) /\ is_interactive

\* how validate_prompt_size ends, given the line the user would type
GuardOutcome(p, is_interactive, checks, input) ==
    IF SumPanics(p, checks) THEN "ArithmeticOverflow"
    ELSE IF OverLimit(p)
         THEN IF is_interactive
              THEN IF Trim(input) # AffirmativeToken THEN "UserAborted" ELSE "Proceed"
              ELSE "SizeLimitExceeded"
         ELSE "Proceed"

\* the thread unwinds with a panic of the given kind
Panic(kind) ==
    /\ pc' = "done"
    /\ delivery' = "panicked"
    /\ outcome' = kind
    /\ UNCHANGED << message, exit_status >>

\* mutant of ProcessExit: the abort is handed back to the caller instead
ProcessExitReturns(kind, status) ==
    /\ pc' = "done"
    /\ delivery' = "returned"
    /\ outcome' = kind
    /\ UNCHANGED << message, exit_status >>

\* std::process::exit(status)
ProcessExit(kind, status) ==
    /\ pc' = "done"
    /\ delivery' = "exited"
    /\ outcome' = kind
    /\ exit_status' = Some(status)
    /\ UNCHANGED message

\* an Err(io::Error) goes back to the caller through `?`
ReturnErr(kind) ==
    /\ pc' = "done"
    /\ delivery' = "returned"
    /\ outcome' = kind
    /\ UNCHANGED << message, exit_status >>

\* line 26 with the whole of validate_prompt_size
ValidatePromptSize ==
    /\ pc = "validate_prompt_size"
    /\ trace' = Append(trace, "validate_prompt_size")
    /\ number_of_chars' =
           IF SumPanics(caller_prompt, overflow_checks) THEN None
           ELSE Some(SumU32(caller_prompt.messages).value)
    /\ \E input \in IF GuardPrompts(caller_prompt, interactive, overflow_checks)
                    THEN UserInputs ELSE {<<>>} :
          LET how == GuardOutcome(caller_prompt, interactive, overflow_checks, input)
          IN  /\ lines_read' =
                     IF GuardPrompts(caller_prompt, interactive, overflow_checks)
                     THEN lines_read + 1 ELSE lines_read
              /\ confirmation' =
                     IF GuardPrompts(caller_prompt, interactive, overflow_checks)
                     THEN Some(input) ELSE None
              /\ CASE how = "Proceed" ->
                        /\ pc' = "clone"
                        /\ UNCHANGED << delivery, outcome, message, exit_status >>
                   [] how = "UserAborted" -> ProcessExit("UserAborted", 0)
                   [] OTHER -> Panic(how)
    /\ UNCHANGED << inputs, prompt, request, payload, response, posts, parsed, error_body >>

\* ------------------------------------------------------ make_api_request
\* mutant of FillDefaults: the caller's stream flag is kept
FillDefaultsKeepStream(p, cfg) ==
    [p EXCEPT !.model = IF IsNone(p.model) THEN cfg.default_model ELSE p.model]

\* lines 28-35 on the clone: default model filled in, stream forced off
FillDefaults(p, cfg) ==
    [p EXCEPT !.model = IF IsNone(p.model) THEN cfg.default_model ELSE p.model,
              !.stream = Some(FALSE)]

\* lines 28-37: clone, fill the defaults, create the ureq request
PrepareRequest ==
    /\ pc = "clone"
    /\ prompt' = Some(FillDefaults(caller_prompt, api_config))
    /\ request' = Some({})
    /\ pc' = "match"
    /\ trace' = Append(trace, "clone")
    /\ UNCHANGED << inputs, payload, response, posts, lines_read, confirmation, parsed,
                    number_of_chars, delivery, outcome, message, exit_status, error_body >>

\* OpenAiPrompt::from and AnthropicPrompt::from: {model, messages, stream}
PromptAdapter(p) == [model |-> p.model, messages |-> p.messages, stream |-> p.stream]

\* the adapters' payload has a model of type text: with no model at all the
\* adapter either passes the absence on or gives up
AdapterOutcomes(p) == IF IsNone(p.model) THEN {"payload", "panic"} ELSE {"payload"}

\* ApiConfig::get_api_key: the key, or giving up when there is none
GetApiKeyOutcomes(cfg) == IF IsNone(cfg.api_key) THEN {"key", "panic"} ELSE {"key"}

\* the configuration failures of the taxonomy's MissingRequiredConfig
MissingRequiredConfig == {"MissingVersion", "MissingApiKey", "MissingModel"}

\* headers set, then the adapter builds the payload handed to send_json
BuildRequest(headers) ==
    \E built \in AdapterOutcomes(prompt[1]) :
        IF built = "payload"
        THEN /\ request' = Some(headers)
             /\ payload' = Some(PromptAdapter(prompt[1]))
             /\ pc' = "send_json"
             /\ trace' = Append(trace, "adapter")
             /\ UNCHANGED << delivery, outcome, message, exit_status >>
        ELSE /\ request' = Some(headers)
             /\ Panic("MissingModel")
             /\ UNCHANGED << payload, trace >>

\* nothing past the header set is touched by a dispatch arm
ArmFrame ==
    UNCHANGED << inputs, prompt, response, posts, lines_read, confirmation, parsed,
                 number_of_chars, error_body >>

\* lines 39-42, up to the payload
DispatchOllama ==
    /\ pc = "match"
    /\ prompt[1].api = "Ollama"
    /\ BuildRequest({"Content-Type"})
    /\ ArmFrame

\* lines 45-51, up to the payload
DispatchOpenAiFamily ==
    /\ pc = "match"
    /\ prompt[1].api \in {"Openai", "Mistral", "Groq"}
    /\ \E key \in GetApiKeyOutcomes(api_config) :
          IF key = "key"
          THEN BuildRequest({"Content-Type", "Authorization"})
          ELSE /\ Panic("MissingApiKey")
               /\ UNCHANGED << request, payload, trace >>
    /\ ArmFrame

\* mutant of DispatchAnthropic: an absent version is sent as an empty header
DispatchAnthropicDefaultVersion ==
    /\ pc = "match"
    /\ prompt[1].api = "Anthropic"
    /\ \E key \in GetApiKeyOutcomes(api_config) :
          IF key = "panic"
          THEN /\ Panic("MissingApiKey")
               /\ UNCHANGED << request, payload, trace >>
          ELSE BuildRequest({"Content-Type", "x-api-key", "anthropic-version"})
    /\ ArmFrame

\* lines 54-65, up to the payload: api key, then version.expect, then adapter
DispatchAnthropic ==
    /\ pc = "match"
    /\ prompt[1].api = "Anthropic"
    /\ \E key \in GetApiKeyOutcomes(api_config) :
          IF key = "panic"
          THEN /\ Panic("MissingApiKey")
               /\ UNCHANGED << request, payload, trace >>
          ELSE IF IsNone(api_config.version)
          THEN /\ Panic("MissingVersion")
               /\ request' = Some({"Content-Type", "x-api-key"})
               /\ UNCHANGED << payload, trace >>
          ELSE BuildRequest({"Content-Type", "x-api-key", "anthropic-version"})
    /\ ArmFrame

\* mutant of DispatchAnotherApiForTests: the test tag goes to the OpenAI arm
DispatchAnotherApiForTestsAsOpenAi ==
    /\ pc = "match"
    /\ prompt[1].api = "AnotherApiForTests"
    /\ BuildRequest({"Content-Type", "Authorization"})
    /\ ArmFrame

\* line 68
DispatchAnotherApiForTests ==
    /\ pc = "match"
    /\ prompt[1].api = "AnotherApiForTests"
    /\ Panic("UnsupportedProvider")
    /\ UNCHANGED << request, payload, trace >>
    /\ ArmFrame

\* request.send_json(payload): the one HTTP POST
SendJson ==
    /\ pc = "send_json"
    /\ posts' = posts + 1
    /\ \E r \in TransportResults : response' = Some(r)
    /\ pc' = "read_response"
    /\ trace' = Append(trace, "send_json")
    /\ UNCHANGED << inputs, prompt, request, payload, lines_read, confirmation, parsed,
                    number_of_chars, delivery, outcome, message, exit_status, error_body >>

\* lines 77-80: the body of a status error, or the placeholder
StatusContent(r) == IF IsSome(r.body) THEN r.body[1] ELSE "(non-UTF-8 response)"

\* mutant of ReadResponse: a transport failure is retried
ReadResponseRetry ==
    /\ pc = "read_response"
    /\ trace' = Append(trace, "read_response")
    /\ LET r == response[1]
       IN  CASE r.kind = "Ok" ->
                    /\ pc' = "into_json"
                    /\ UNCHANGED << delivery, outcome, message, exit_status, error_body >>
             [] r.kind = "Status" ->
                    /\ ReturnErr("StatusError")
                    /\ error_body' = Some(StatusContent(r))
             [] r.kind = "Transport" ->
                    /\ pc' = "send_json"
                    /\ UNCHANGED << delivery, outcome, message, exit_status, error_body >>
    /\ UNCHANGED << inputs, prompt, request, payload, response, posts, lines_read,
                    confirmation, parsed, number_of_chars >>

\* read_response(..)? : lines 74-87 and the `?` of the call site
ReadResponse ==
    /\ pc = "read_response"
    /\ trace' = Append(trace, "read_response")
    /\ LET r == response[1]
       IN  CASE r.kind = "Ok" ->
                    /\ pc' = "into_json"
                    /\ UNCHANGED << delivery, outcome, message, exit_status, error_body >>
             [] r.kind = "Status" ->
                    /\ ReturnErr("StatusError")
                    /\ error_body' = Some(StatusContent(r))
             [] r.kind = "Transport" ->
                    /\ ReturnErr("TransportError")
                    /\ UNCHANGED error_body
    /\ UNCHANGED << inputs, prompt, request, payload, response, posts, lines_read,
                    confirmation, parsed, number_of_chars >>

\* mutant of IntoJson: a body that does not parse is passed on all the same
IntoJsonLenient ==
    /\ pc = "into_json"
    /\ trace' = Append(trace, "into_json")
    /\ \E ok \in BOOLEAN :
          /\ parsed' = Some(ok)
          /\ pc' = "respond"
          /\ UNCHANGED << delivery, outcome, message, exit_status >>
    /\ UNCHANGED << inputs, prompt, request, payload, response, posts, lines_read,
                    confirmation, number_of_chars, error_body >>

\* .into_json()? : the body parses into the provider's response type or not
IntoJson ==
    /\ pc = "into_json"
    /\ trace' = Append(trace, "into_json")
    /\ \E ok \in BOOLEAN :
          /\ parsed' = Some(ok)
          /\ IF ok
             THEN /\ pc' = "respond"
                  /\ UNCHANGED << delivery, outcome, message, exit_status >>
             ELSE ReturnErr("DeserializationError")
    /\ UNCHANGED << inputs, prompt, request, payload, response, posts, lines_read,
                    confirmation, number_of_chars, error_body >>

\* Message::assistant(text)
MessageAssistant(text) == [role |-> "assistant", content |-> text]

\* response.into() and line 71
ReturnMessage ==
    /\ pc = "respond"
    /\ message' = Some(MessageAssistant("completion"))
    /\ delivery' = "returned"
    /\ outcome' = "Ok"
    /\ pc' = "done"
    /\ trace' = Append(trace, "response_adapter")
    /\ UNCHANGED << inputs, prompt, request, payload, response, posts, lines_read,
                    confirmation, parsed, number_of_chars, exit_status, error_body >>

Next ==
    \/ ValidatePromptSize
    \/ PrepareRequest
    \/ DispatchOllama
    \/ DispatchOpenAiFamily
    \/ DispatchAnthropic
    \/ DispatchAnotherApiForTests
    \/ SendJson
    \/ ReadResponse
    \/ IntoJson
    \/ ReturnMessage

Spec == Init /\ [][Next]_vars

\* =================================================================== claims
\* the byte lengths of all contents added up without loss
RECURSIVE TotalLength(_)
TotalLength(msgs) ==
    IF msgs = <<>> THEN ZeroUsize
    ELSE AddUsize(TotalLength(Tail(msgs)), Head(msgs).content)

\* char_limit is set and not zero
LimitEnabled(p) == IsSome(p.char_limit) /\ p.char_limit[1] # ZeroU32

\* the prompt's contents really are longer than its non-zero char_limit
TrulyOverLimit(p) ==
    LimitEnabled(p) /\ GtUsize(TotalLength(p.messages), Widen(p.char_limit[1]))

GuardRan == pc # "validate_prompt_size"
GuardFailures == {"UserAborted", "SizeLimitExceeded", "ArithmeticOverflow"}
GuardProceeded == GuardRan /\ outcome \notin GuardFailures
GuardTriggered == lines_read > 0 \/ outcome = "SizeLimitExceeded"
Finished == pc = "done"
ReturnedErrors == {"TransportError", "StatusError", "DeserializationError"}

\* position of the first occurrence of a step in the trace, 0 if absent
FirstAt(step) ==
    IF \E i \in 1..Len(trace) : trace[i] = step
    THEN CHOOSE i \in 1..Len(trace) :
             trace[i] = step /\ \A j \in 1..(i - 1) : trace[j] # step
    ELSE 0

\* the guard's step comes before every adapter and transport step
GuardFirst ==
    \A i \in 1..Len(trace) :
        trace[i] \in {"clone", "adapter", "send_json"} =>
            FirstAt("validate_prompt_size") > 0 /\ FirstAt("validate_prompt_size") < i

\* C1: in non-interactive mode every prompt whose contents are longer than its
\* non-zero char_limit fails with SizeLimitExceeded and no network call, and
\* the guard always runs before any adapter or transport step.
C1_OversizeNonInteractiveFails ==
    /\ GuardFirst
    /\ (GuardRan /\ ~interactive /\ TrulyOverLimit(input_prompt)) =>
           /\ Finished
           /\ outcome = "SizeLimitExceeded"
           /\ posts = 0
           /\ payload = None

\* C2: with char_limit absent or zero validate_prompt_size proceeds, in both
\* modes and for every message sequence: no prompt, no abort, no failure.
C2_DisabledLimitNeverTriggers ==
    (GuardRan /\ ~LimitEnabled(input_prompt)) =>
        /\ lines_read = 0
        /\ confirmation = None
        /\ GuardProceeded

\* C3: in interactive mode with contents longer than a non-zero char_limit the
\* guard reads exactly one line; dispatch goes on iff the trimmed line is "Y",
\* otherwise it ends as UserAborted with no network call and exit status 0.
C3_InteractiveConfirmation ==
    (GuardRan /\ interactive /\ TrulyOverLimit(input_prompt)) =>
        /\ lines_read = 1
        /\ IsSome(confirmation)
        /\ IF Trim(confirmation[1]) = <<"Y">>
           THEN GuardProceeded
           ELSE /\ outcome = "UserAborted"
                /\ posts = 0
                /\ exit_status = Some(0)

\* C4: one invocation issues at most one HTTP POST; a transport failure, a
\* non-success status or a parse failure is returned to the caller after that
\* one POST, with no second request.
C4_AtMostOnePost ==
    /\ posts <= 1
    /\ (IsSome(response) /\ response[1].kind # "Ok" /\ pc \notin {"read_response"}) =>
           /\ Finished
           /\ delivery = "returned"
           /\ outcome = (IF response[1].kind = "Status" THEN "StatusError"
                         ELSE "TransportError")
    /\ parsed = Some(FALSE) =>
           Finished /\ delivery = "returned" /\ outcome = "DeserializationError"
    /\ outcome \in ReturnedErrors => posts = 1 /\ delivery = "returned"

C4_Witness == Finished /\ outcome = "TransportError" /\ posts = 1

\* C5 as stated: dispatch with the test-only provider fails with
\* UnsupportedProvider before any request is built and with no network call.
C5_TestOnlyAlwaysUnsupported ==
    (Finished /\ input_prompt.api = "AnotherApiForTests") =>
        /\ outcome = "UnsupportedProvider"
        /\ payload = None
        /\ posts = 0

\* C5 amended: with the test-only provider no payload is built and no network
\* call is made; once the size guard has let the prompt through, dispatch ends
\* with UnsupportedProvider.
C5_TestOnlyUnsupportedAfterGuard ==
    input_prompt.api = "AnotherApiForTests" =>
        /\ payload = None
        /\ posts = 0
        /\ "adapter" \notin {trace[i] : i \in 1..Len(trace)}
        /\ (Finished /\ GuardProceeded) => outcome = "UnsupportedProvider"
        /\ Finished => outcome \in GuardFailures \cup {"UnsupportedProvider"}

C5_Witness ==
    /\ input_prompt.api = "AnotherApiForTests"
    /\ Finished
    /\ outcome = "UnsupportedProvider"
    /\ IsSome(prompt)

\* C6 as stated: dispatch to Anthropic with no version fails with
\* MissingRequiredConfig and no HTTP POST.
C6_AnthropicNoVersionAlwaysMissingConfig ==
    (Finished /\ input_prompt.api = "Anthropic" /\ IsNone(api_config.version)) =>
        /\ outcome \in MissingRequiredConfig
        /\ posts = 0

\* C6 amended: dispatch to Anthropic with no version never issues an HTTP
\* POST; once the size guard has let the prompt through, dispatch ends with a
\* missing-configuration failure, the missing version when an api key is there.
C6_AnthropicNoVersionAfterGuard ==
    (input_prompt.api = "Anthropic" /\ IsNone(api_config.version)) =>
        /\ posts = 0
        /\ payload = None
        /\ (Finished /\ GuardProceeded) =>
               /\ outcome \in MissingRequiredConfig
               /\ IsSome(api_config.api_key) => outcome = "MissingVersion"
        /\ Finished => outcome \in GuardFailures \cup MissingRequiredConfig

C6_Witness ==
    /\ input_prompt.api = "Anthropic"
    /\ IsNone(api_config.version)
    /\ Finished
    /\ outcome = "MissingVersion"

\* C7: the payload handed to the transport has stream = false and the prompt's
\* model, or the default model when the prompt has none; the caller's prompt
\* is the same after the call as before it.
C7_PayloadDefaultsOnLocalCopy ==
    /\ caller_prompt = input_prompt
    /\ IsSome(payload) =>
           /\ payload[1].stream = Some(FALSE)
           /\ payload[1].model =
                  (IF IsSome(input_prompt.model) THEN input_prompt.model
                   ELSE api_config.default_model)
           /\ payload[1].messages = input_prompt.messages

C7_Witness ==
    /\ posts = 1
    /\ IsSome(payload)
    /\ input_prompt.stream = Some(TRUE)
    /\ IsNone(input_prompt.model)
    /\ IsSome(api_config.default_model)
    /\ Finished

\* C8: a Message comes back only after the guard proceeded, the transport
\* answered with success and the body parsed, and it has role assistant; a
\* status, connection or parse failure ends the call with an error, no later
\* step and no Message.
C8_MessageOnlyAfterEveryStep ==
    /\ IsSome(message) =>
           /\ Finished /\ delivery = "returned" /\ outcome = "Ok"
           /\ GuardProceeded
           /\ IsSome(response) /\ response[1].kind = "Ok"
           /\ parsed = Some(TRUE)
           /\ message[1].role = "assistant"
           /\ trace = << "validate_prompt_size", "clone", "adapter", "send_json",
                         "read_response", "into_json", "response_adapter" >>
    /\ (Finished /\ outcome # "Ok") => message = None
    /\ outcome \in {"TransportError", "StatusError"} =>
           /\ delivery = "returned"
           /\ trace[Len(trace)] = "read_response"
           /\ parsed = None
    /\ outcome = "DeserializationError" =>
           /\ delivery = "returned"
           /\ trace[Len(trace)] = "into_json"

C8_Witness == Finished /\ IsSome(message) /\ outcome = "Ok"

C10_GuardUsesTrueLength ==
    GuardRan =>
        /\ IsSome(number_of_chars)
        /\ Widen(number_of_chars[1]) = TotalLength(input_prompt.messages)
        /\ LimitEnabled(input_prompt) =>
               (GuardTriggered <=> TrulyOverLimit(input_prompt))

====
